---- MODULE Spec2Model ----
(***************************************************************************)
(* Model of the Velero restore item action in                              *)
(* internal/plugin/replace_pattern_action.go: RestorePlugin.Execute,       *)
(* getConfigMapDataByLabel, replacePatternAction, extractMetadataName,     *)
(* restoreMetadataName and triggerPodVolumeRestore, together with the      *)
(* ConfigMap list and the PodVolumeRestore store they call.                *)
(*                                                                         *)
(* Strings are sequences of one-character strings.  A JSON document is     *)
(* either a string value [t |-> "str", s |-> chars] or an object.  A       *)
(* decoded object is [t |-> "obj", m |-> function from keys to values]; a  *)
(* serialized object is [t |-> "obj", e |-> sequence of [k, v] members] in *)
(* the order the members appear in the text.  The rules' patterns and      *)
(* replacements range over strings without JSON syntax characters, so an   *)
(* occurrence of a pattern in the serialized text lies inside one key or   *)
(* one string value, and replacing over the text is replacing inside       *)
(* every key and every string value.                                       *)
(***************************************************************************)
EXTENDS Naturals, Sequences, FiniteSets, TLC

(***************************************************************************)
(* Strings                                                                 *)
(***************************************************************************)

\* The characters the model's strings use, in byte order.
Alphabet ==
    << "-", ".", "/", "1", "2", "J", "P",
       "a", "b", "d", "e", "i", "k", "l", "m", "n", "o", "p", "r", "s", "t",
       "u", "v", "w", "x" >>

Rank(c) == CHOOSE i \in DOMAIN Alphabet : Alphabet[i] = c

\* a < b in Go's string order (bytewise lexicographic).
RECURSIVE StrLess(_, _)
StrLess(a, b) ==
    IF b = << >> THEN FALSE
    ELSE IF a = << >> THEN TRUE
    ELSE IF Head(a) = Head(b) THEN StrLess(Tail(a), Tail(b))
    ELSE Rank(Head(a)) < Rank(Head(b))

\* strings.HasPrefix(s[i:], old), i counted from 1.
HasPrefixAt(s, old, i) ==
    /\ i + Len(old) - 1 <= Len(s)
    /\ \A j \in 1..Len(old) : s[i + j - 1] = old[j]

RECURSIVE ReplaceFrom(_, _, _, _)
ReplaceFrom(s, old, new, i) ==
    IF i > Len(s) THEN << >>
    ELSE IF HasPrefixAt(s, old, i)
         THEN new \o ReplaceFrom(s, old, new, i + Len(old))
         ELSE << s[i] >> \o ReplaceFrom(s, old, new, i + 1)

RECURSIVE Interleave(_, _)
Interleave(s, new) ==
    IF s = << >> THEN new ELSE new \o << Head(s) >> \o Interleave(Tail(s), new)

\* strings.ReplaceAll(s, old, new): the non-overlapping occurrences of old,
\* leftmost first, become new; an empty old matches before every character
\* and at the end.
ReplaceAll(s, old, new) ==
    IF old = << >> THEN Interleave(s, new) ELSE ReplaceFrom(s, old, new, 1)

(***************************************************************************)
(* JSON documents                                                          *)
(***************************************************************************)

Str(s) == [t |-> "str", s |-> s]
Obj(m) == [t |-> "obj", m |-> m]
Text(e) == [t |-> "obj", e |-> e]
EmptyMap == [k \in {} |-> Str(<< >>)]

IsStr(v) == v.t = "str"
IsObj(v) == v.t = "obj"

MinKey(S) == CHOOSE k \in S : \A o \in S \ {k} : StrLess(k, o)

RECURSIVE SortedKeys(_)
SortedKeys(S) ==
    IF S = {} THEN << >> ELSE << MinKey(S) >> \o SortedKeys(S \ {MinKey(S)})

\* json.Marshal of a decoded document: the members of every object in the
\* order of their keys.
RECURSIVE Marshal(_)
Marshal(v) ==
    IF IsStr(v) THEN v
    ELSE LET keys == SortedKeys(DOMAIN v.m)
         IN  Text([i \in 1..Len(keys) |->
                     [k |-> keys[i], v |-> Marshal(v.m[keys[i]])]])

\* json.Unmarshal into map[string]interface{}: of the members with one key
\* the last one in the text stays.
RECURSIVE Unmarshal(_)
Unmarshal(x) ==
    IF IsStr(x) THEN x
    ELSE LET e == x.e
             last(k) == CHOOSE i \in 1..Len(e) :
                           /\ e[i].k = k
                           /\ \A j \in (i + 1)..Len(e) : e[j].k # k
         IN  Obj([k \in {e[i].k : i \in 1..Len(e)} |-> Unmarshal(e[last(k)].v)])

\* strings.ReplaceAll over the serialized text.
RECURSIVE ReplaceAllText(_, _, _)
ReplaceAllText(x, old, new) ==
    IF IsStr(x) THEN Str(ReplaceAll(x.s, old, new))
    ELSE Text([i \in 1..Len(x.e) |->
                 [k |-> ReplaceAll(x.e[i].k, old, new),
                  v |-> ReplaceAllText(x.e[i].v, old, new)]])

(***************************************************************************)
(* Well-known strings                                                      *)
(***************************************************************************)

kindKey == << "k", "i", "n", "d" >>
metadataKey == << "m", "e", "t", "a", "d", "a", "t", "a" >>
nameKey == << "n", "a", "m", "e" >>
labelsKey == << "l", "a", "b", "e", "l", "s" >>
veleroIoRestore ==
    << "v", "e", "l", "e", "r", "o", ".", "i", "o", "/",
       "r", "e", "s", "t", "o", "r", "e", "-" >>
restoreNameKey == veleroIoRestore \o << "n", "a", "m", "e" >>
restoreUIDKey == veleroIoRestore \o << "u", "i", "d" >>
appKey == << "a", "p", "p" >>
Pod == << "P", "o", "d" >>
Job == << "J", "o", "b" >>
veleroNamespace == "velero"
PodVolumeRestorePhaseInProgress == "InProgress"

(***************************************************************************)
(* unstructured.Unstructured accessors                                     *)
(***************************************************************************)

HasObj(v, k) == IsObj(v) /\ k \in DOMAIN v.m /\ IsObj(v.m[k])
HasStr(v, k) == IsObj(v) /\ k \in DOMAIN v.m /\ IsStr(v.m[k])

\* GetKind: the string at "kind", "" when absent or not a string.
GetKind(item) == IF HasStr(item, kindKey) THEN item.m[kindKey].s ELSE << >>

\* GetName: the string at metadata.name, "" when absent or not a string.
GetName(item) ==
    IF HasObj(item, metadataKey) /\ HasStr(item.m[metadataKey], nameKey)
    THEN item.m[metadataKey].m[nameKey].s
    ELSE << >>

\* GetLabels: the string map at metadata.labels; nil when it is absent, not
\* an object, or holds a value that is not a string.
NilLabels == [nil |-> TRUE]
NoLabels == NilLabels
Labels(m) == [nil |-> FALSE, m |-> m]
GetLabels(item) ==
    IF /\ HasObj(item, metadataKey)
       /\ HasObj(item.m[metadataKey], labelsKey)
       /\ \A k \in DOMAIN item.m[metadataKey].m[labelsKey].m :
              IsStr(item.m[metadataKey].m[labelsKey].m[k])
    THEN Labels([k \in DOMAIN item.m[metadataKey].m[labelsKey].m |->
                     item.m[metadataKey].m[labelsKey].m[k].s])
    ELSE NilLabels

\* labels[key] of a Go map: "" for a key the map does not hold.
LabelValue(labels, key) == IF key \in DOMAIN labels.m THEN labels.m[key] ELSE << >>

\* json.Unmarshal into unstructured.Unstructured: the decoded document, or
\* an error when it carries no kind.
UnmarshalUnstructured(text) ==
    LET obj == Unmarshal(text)
    IN  IF GetKind(obj) = << >> THEN [st |-> "err"]
        ELSE [st |-> "ok", item |-> obj]

(***************************************************************************)
(* getConfigMapDataByLabel                                                 *)
(***************************************************************************)

\* The inner loops: every key of every ConfigMap, a later ConfigMap's value
\* over an earlier one's.
RECURSIVE Aggregate(_, _)
Aggregate(items, acc) ==
    IF items = << >> THEN acc
    ELSE Aggregate(Tail(items),
                   [k \in DOMAIN acc \cup DOMAIN Head(items) |->
                       IF k \in DOMAIN Head(items) THEN Head(items)[k] ELSE acc[k]])

NoPatterns == [k \in {} |-> << >>]

\* listing is [err, items]: the ConfigMap list call's outcome.
getConfigMapDataByLabel(listing) ==
    IF listing.err THEN [err |-> TRUE]
    ELSE IF Len(listing.items) = 0 THEN [err |-> TRUE]
    ELSE [err |-> FALSE, patterns |-> Aggregate(listing.items, NoPatterns)]

(***************************************************************************)
(* replacePatternAction                                                    *)
(***************************************************************************)

extractMetadataName(jsonData) ==
    LET obj == Unmarshal(jsonData)
    IN  IF HasObj(obj, metadataKey) /\ HasStr(obj.m[metadataKey], nameKey)
        THEN obj.m[metadataKey].m[nameKey].s
        ELSE << >>

restoreMetadataName(modifiedString, originalName) ==
    LET obj == Unmarshal(modifiedString)
    IN  IF HasObj(obj, metadataKey)
        THEN Marshal(Obj([k \in DOMAIN obj.m |->
                 IF k = metadataKey
                 THEN Obj([n \in DOMAIN obj.m[k].m \cup {nameKey} |->
                          IF n = nameKey THEN Str(originalName)
                          ELSE obj.m[k].m[n]])
                 ELSE obj.m[k]]))
        ELSE Marshal(obj)

\* The rule applied to the text as it was serialized.
ReplaceStepOnOriginal(jsonData, modifiedString, pattern, replacement) ==
    ReplaceAllText(jsonData, pattern, replacement)

\* The body of the loop over the rules, with jsonData and modifiedString in
\* its scope: one rule applied to the text built so far.
ReplaceStep(jsonData, modifiedString, pattern, replacement) ==
    ReplaceAllText(modifiedString, pattern, replacement)

\* The loop over the rules, order being the order in which the iteration
\* over the map yields its keys.
RECURSIVE ReplaceLoop(_, _, _, _)
ReplaceLoop(jsonData, modifiedString, patterns, order) ==
    IF order = << >> THEN modifiedString
    ELSE ReplaceLoop(jsonData,
                     ReplaceStep(jsonData, modifiedString, Head(order),
                                 patterns[Head(order)]),
                     patterns, Tail(order))

\* The orders in which a map of rules can be iterated.
Orders(S) ==
    {o \in [1..Cardinality(S) -> S] : \A i, j \in DOMAIN o : i # j => o[i] # o[j]}

\* The name put back into a Pod's text after the rules.
ProtectName(isPod, modifiedString, originalName) ==
    IF isPod THEN restoreMetadataName(modifiedString, originalName)
    ELSE modifiedString

replacePatternAction(item, patterns, order) ==
    LET jsonData == Marshal(item)
        isPod == GetKind(item) = Pod
        originalName == IF isPod THEN extractMetadataName(jsonData) ELSE << >>
        modifiedString == ReplaceLoop(jsonData, jsonData, patterns, order)
    IN  UnmarshalUnstructured(ProtectName(isPod, modifiedString, originalName))

(***************************************************************************)
(* triggerPodVolumeRestore and the PodVolumeRestore store                  *)
(***************************************************************************)

\* The list call made for every Pod, whatever its labels.
CorrelationCheckUnguarded(modifiedItem) ==
    IF GetKind(modifiedItem) # Pod THEN "skip" ELSE "query"

\* What triggerPodVolumeRestore decides before it calls the store: "skip"
\* (not a Pod: return nil), "labels" (pod labels are nil), "missing" (an
\* empty restore-name or restore-uid), or "query" (go on to the list).
CorrelationCheck(modifiedItem) ==
    IF GetKind(modifiedItem) # Pod THEN "skip"
    ELSE IF GetLabels(modifiedItem).nil THEN "labels"
    ELSE IF \/ LabelValue(GetLabels(modifiedItem), restoreNameKey) = << >>
            \/ LabelValue(GetLabels(modifiedItem), restoreUIDKey) = << >>
         THEN "missing"
    ELSE "query"

\* The label selector of the list call, as the two values it is built from
\* (those of a nil map are empty).
LabelSelector(modifiedItem) ==
    LET labels == IF GetLabels(modifiedItem).nil THEN Labels(NoPatterns)
                  ELSE GetLabels(modifiedItem)
    IN  [restoreName |-> LabelValue(labels, restoreNameKey),
         restoreUID |-> LabelValue(labels, restoreUIDKey)]

\* PodVolumeRestores(namespace).List: the records of the namespace that
\* carry the selector's two labels, in the store's order, each with the
\* resource version it had when listed.
RECURSIVE ListFrom(_, _, _, _)
ListFrom(st, ids, namespace, sel) ==
    IF ids = << >> THEN << >>
    ELSE LET id == Head(ids)
             rest == ListFrom(st, Tail(ids), namespace, sel)
         IN  IF /\ st[id].ns = namespace
                /\ st[id].restoreName = sel.restoreName
                /\ st[id].restoreUID = sel.restoreUID
             THEN << [id |-> id, pod |-> st[id].pod, phase |-> st[id].phase,
                      rv |-> st[id].rv] >> \o rest
             ELSE rest

\* Every listed record, whatever Pod it names.
NamesAnyPod(pvr, podName) == TRUE

\* The records of the loop that get an update: those that name the Pod.
NamesPod(pvr, podName) == pvr.pod = podName

\* The copy with the phase it was listed with.
pvrCopyAsListed(pvr) == pvr

\* The copy handed to UpdateStatus.
pvrCopy(pvr) == [pvr EXCEPT !.phase = PodVolumeRestorePhaseInProgress]

\* An update also refused when the record already is in the copy's phase.
UpdateConflictsOrSamePhase(st, copy) ==
    st[copy.id].rv # copy.rv \/ st[copy.id].phase = copy.phase

\* UpdateStatus: refused when the record changed since it was listed
\* (another resource version), else the copy's status is stored.
UpdateConflicts(st, copy) == st[copy.id].rv # copy.rv
UpdateStatus(st, copy) ==
    [st EXCEPT ![copy.id].phase = copy.phase,
               ![copy.id].rv = IF st[copy.id].phase = copy.phase THEN @ ELSE @ + 1]

\* The error of triggerPodVolumeRestore returned by Execute.
ExecuteReturnPropagating(out, terr) ==
    IF terr = "nil" THEN [st |-> "ok", item |-> out.item] ELSE [st |-> "err"]

\* What Execute returns once replacePatternAction has succeeded and
\* triggerPodVolumeRestore has returned terr: the output, and no error.
ExecuteReturn(out, terr) == [st |-> "ok", item |-> out.item]

(***************************************************************************)
(* Inputs                                                                  *)
(***************************************************************************)

web == << "w", "e", "b" >>
db == << "d", "b" >>
r1 == << "r", "1" >>
r2 == << "r", "2" >>
u1 == << "u", "1" >>

\* A resource of a kind, with metadata.name (none for "") and
\* metadata.labels (none for NoLabels).
MkItem(kind, name, labels) ==
    LET nm == IF name = << >> THEN EmptyMap ELSE (nameKey :> Str(name))
        lb == IF labels.nil THEN EmptyMap
              ELSE (labelsKey :> Obj([k \in DOMAIN labels.m |-> Str(labels.m[k])]))
    IN  Obj((kindKey :> Str(kind)) @@ (metadataKey :> Obj(nm @@ lb)))

Correlated == (restoreNameKey :> r1) @@ (restoreUIDKey :> u1)

PodWeb == MkItem(Pod, web, Labels(Correlated @@ (appKey :> (web \o << "-", "x" >>))))
PodDb == MkItem(Pod, db, Labels(Correlated))

Items ==
    { PodWeb,
      PodDb,
      MkItem(Pod, web, NoLabels),
      MkItem(Pod, web, Labels((restoreNameKey :> r1))),
      MkItem(Pod, web, Labels((restoreNameKey :> r1) @@ (restoreUIDKey :> << >>))),
      MkItem(Pod, << >>, Labels(Correlated)),
      MkItem(Job, web, Labels(Correlated)) }

Rule(pattern, replacement) == (pattern :> replacement)

\* The outcomes of the ConfigMap list call: an error, no ConfigMap, a
\* ConfigMap without data, or ConfigMaps with rules.
Listings ==
    { [err |-> TRUE, items |-> << >>],
      [err |-> FALSE, items |-> << >>],
      [err |-> FALSE, items |-> << NoPatterns >>],
      [err |-> FALSE, items |-> << Rule(web, db) >>],
      [err |-> FALSE, items |-> << Rule(db, web) >>],
      [err |-> FALSE, items |-> << Rule(<< "d", "a", "t", "a" >>, << "x" >>) >>],
      [err |-> FALSE, items |-> << Rule(r1, r2) >>],
      [err |-> FALSE, items |-> << Rule(kindKey, << "x" >>) >>],
      [err |-> FALSE, items |-> << Rule(Pod, Job) >>],
      [err |-> FALSE, items |-> << Rule(web, db) @@ Rule(db, web), Rule(web, << "x" >>) >>] }

Phases == {"New", "InProgress", "Completed", "Failed"}

PVRIds == << "a1", "b1", "a2", "c1", "o1" >>
PVRSet == {PVRIds[i] : i \in DOMAIN PVRIds}

\* The PodVolumeRestore records before any hook call: two volumes of Pod
\* web and one of Pod db in restore r1, one of Pod web in restore r2, and
\* one of Pod web in restore r1 outside the velero namespace.
PVR(ns, rn, pod, phase) ==
    [ns |-> ns, restoreName |-> rn, restoreUID |-> u1, pod |-> pod,
     phase |-> phase, rv |-> 1]
InitialStore(p) ==
    [id \in PVRSet |->
        CASE id = "a1" -> PVR(veleroNamespace, r1, web, p)
          [] id = "b1" -> PVR(veleroNamespace, r1, db, "New")
          [] id = "a2" -> PVR(veleroNamespace, r1, web, p)
          [] id = "c1" -> PVR(veleroNamespace, r2, web, "New")
          [] OTHER -> PVR("other", r1, web, "New")]

Workers == {"w1", "w2"}

\* The resources the host hands to a worker: any of Items to the first, a
\* Pod of restore r1 to the second.
Assigned(w) == IF w = "w1" THEN Items ELSE {PodWeb, PodDb}

\* Bounds: the store calls that fail for a reason of the store's own, and
\* the times the host calls Execute again on a resource.
MaxFaults == 1
MaxRetries == 1

(***************************************************************************)
(* State                                                                   *)
(***************************************************************************)

VARIABLES
    configMaps,  \* the outcome of the ConfigMap list call in this cluster
    store,       \* the PodVolumeRestore records: id -> [ns, labels, pod, phase, rv]
    pc,          \* per worker: "idle", "list" (before the list call), "loop"
                 \* (before an update call) or "done"
    input,       \* per worker: input.Item of its Execute call
    run,         \* per worker: the Execute calls made on its resource
    output,      \* per worker: what replacePatternAction returned
    result,      \* per worker: what Execute returned
    name,        \* per worker: modifiedItem.GetName()
    selector,    \* per worker: the label selector of its list call
    pvrList,     \* per worker: pvrList.Items
    idx,         \* per worker: the position in pvrList.Items of the next update
    trigErr,     \* per worker: what triggerPodVolumeRestore returned
    faults,      \* store calls failed so far for a reason of the store's own
    store0,      \* history: the records before any Execute call
    lists,       \* history, per worker: list calls issued by the current Execute call
    wrote,       \* history: <<worker, run, id>> of every status update stored
    faulted,     \* history, per worker: a store call of the current call failed on its own
    prev,        \* history, per worker: how the previous Execute call ended
    jsonText,    \* rule-order check: the serialized text before the loop
    ruleSet,     \* rule-order check: the rules
    modifiedString, \* rule-order check: the text built so far
    todo         \* rule-order check: the patterns the iteration has yet to yield

execVars == << pc, input, run, output, result, name, selector, pvrList, idx, trigErr >>
histVars == << store0, lists, wrote, faulted, prev >>
orderVars == << jsonText, ruleSet, modifiedString, todo >>
vars == << configMaps, store, faults, execVars, histVars, orderVars >>

None == [st |-> "none"]
NoItem == [t |-> "none"]

InitOrderIdle ==
    /\ jsonText = Str(<< >>)
    /\ ruleSet = NoPatterns
    /\ modifiedString = Str(<< >>)
    /\ todo = {}

Init ==
    /\ configMaps \in Listings
    /\ \E p \in Phases : store = InitialStore(p)
    /\ store0 = store
    /\ pc = [w \in Workers |-> "idle"]
    /\ input = [w \in Workers |-> NoItem]
    /\ run = [w \in Workers |-> 0]
    /\ output = [w \in Workers |-> None]
    /\ result = [w \in Workers |-> None]
    /\ name = [w \in Workers |-> << >>]
    /\ selector = [w \in Workers |-> None]
    /\ pvrList = [w \in Workers |-> << >>]
    /\ idx = [w \in Workers |-> 0]
    /\ trigErr = [w \in Workers |-> "none"]
    /\ faults = 0
    /\ lists = [w \in Workers |-> 0]
    /\ wrote = {}
    /\ faulted = [w \in Workers |-> FALSE]
    /\ prev = [w \in Workers |-> None]
    /\ InitOrderIdle

(***************************************************************************)
(* RestorePlugin.Execute                                                   *)
(***************************************************************************)

\* The Execute calls made again so far.
Retries ==
    LET again(w) == IF run[w] > 0 THEN run[w] - 1 ELSE 0
    IN  again("w1") + again("w2")

\* triggerPodVolumeRestore returns terr and Execute returns.
Return(w, terr) ==
    /\ pc' = [pc EXCEPT ![w] = "done"]
    /\ trigErr' = [trigErr EXCEPT ![w] = terr]
    /\ result' = [result EXCEPT ![w] = ExecuteReturn(output[w], terr)]

\* Execute up to the first store call: the rules are fetched, the item is
\* rewritten, and triggerPodVolumeRestore reads the Pod's name and labels.
\* The host may call Execute again on the same resource.
Execute(w) ==
    /\ pc[w] \in {"idle", "done"}
    /\ pc[w] = "done" => Retries < MaxRetries
    /\ \E item \in (IF pc[w] = "idle" THEN Assigned(w) ELSE {input[w]}) :
       \E fetched \in {getConfigMapDataByLabel(configMaps)} :
       \E order \in (IF fetched.err THEN {<< >>} ELSE Orders(DOMAIN fetched.patterns)) :
       \E out \in {IF fetched.err THEN None
                   ELSE replacePatternAction(item, fetched.patterns, order)} :
       \E chk \in {IF out.st = "ok" THEN CorrelationCheck(out.item) ELSE "none"} :
       \E terr \in {CASE chk = "skip" -> "nil"
                      [] chk \in {"labels", "missing"} -> chk
                      [] OTHER -> "none"} :
          /\ input' = [input EXCEPT ![w] = item]
          /\ output' = [output EXCEPT ![w] = out]
          /\ pc' = [pc EXCEPT ![w] = IF chk = "query" THEN "list" ELSE "done"]
          /\ trigErr' = [trigErr EXCEPT ![w] = terr]
          /\ result' = [result EXCEPT ![w] =
                IF fetched.err THEN [st |-> "ok", item |-> item]
                ELSE IF out.st = "err" THEN [st |-> "err"]
                ELSE IF chk = "query" THEN None
                ELSE ExecuteReturn(out, terr)]
          /\ name' = [name EXCEPT ![w] =
                IF chk = "query" THEN GetName(out.item) ELSE << >>]
          /\ selector' = [selector EXCEPT ![w] =
                IF chk = "query" THEN [st |-> "set"] @@ LabelSelector(out.item)
                ELSE None]
    /\ run' = [run EXCEPT ![w] = @ + 1]
    /\ pvrList' = [pvrList EXCEPT ![w] = << >>]
    /\ idx' = [idx EXCEPT ![w] = 0]
    /\ lists' = [lists EXCEPT ![w] = 0]
    /\ faulted' = [faulted EXCEPT ![w] = FALSE]
    /\ prev' = [prev EXCEPT ![w] =
          IF pc[w] = "idle" THEN None
          ELSE [st |-> "ran", output |-> output[w], trigErr |-> trigErr[w],
                phase |-> [id \in PVRSet |-> store[id].phase]]]
    /\ UNCHANGED << configMaps, store, faults, store0, wrote, orderVars >>

\* The loop from position i on: the position of the next record that gets
\* an update, or Len(items) + 1 when the loop ends without one.
RECURSIVE NextUpdate(_, _, _)
NextUpdate(items, i, podName) ==
    IF i > Len(items) THEN i
    ELSE IF NamesPod(items[i], podName) THEN i
    ELSE NextUpdate(items, i + 1, podName)

\* The loop goes on to position i: it stops at the next update call, or
\* ends, and then triggerPodVolumeRestore returns nil and Execute returns.
Continue(w, items, i) ==
    LET n == NextUpdate(items, i, name[w])
    IN  /\ idx' = [idx EXCEPT ![w] = n]
        /\ pc' = [pc EXCEPT ![w] = IF n > Len(items) THEN "done" ELSE "loop"]
        /\ trigErr' = [trigErr EXCEPT ![w] = IF n > Len(items) THEN "nil" ELSE @]
        /\ result' = [result EXCEPT ![w] =
              IF n > Len(items) THEN ExecuteReturn(output[w], "nil") ELSE @]

\* The loop goes on after a failed update, which is kept as the error.
UpdateErrorKeptGoing(w) ==
    LET n == NextUpdate(pvrList[w], idx[w] + 1, name[w])
    IN  /\ idx' = [idx EXCEPT ![w] = n]
        /\ pc' = [pc EXCEPT ![w] = IF n > Len(pvrList[w]) THEN "done" ELSE "loop"]
        /\ trigErr' = [trigErr EXCEPT ![w] = "update"]
        /\ result' = [result EXCEPT ![w] =
              IF n > Len(pvrList[w]) THEN ExecuteReturn(output[w], "update") ELSE @]

\* A failed update: triggerPodVolumeRestore returns the error, with the
\* loop where it is.
UpdateError(w) ==
    /\ Return(w, "update")
    /\ idx' = idx

\* The list call returns the records of the selector, and the loop starts.
List(w) ==
    /\ pc[w] = "list"
    /\ \E items \in {ListFrom(store, PVRIds, veleroNamespace, selector[w])} :
          /\ pvrList' = [pvrList EXCEPT ![w] = items]
          /\ Continue(w, items, 1)
    /\ lists' = [lists EXCEPT ![w] = @ + 1]
    /\ UNCHANGED << configMaps, store, faults, input, run, output, name,
                    selector, store0, wrote, faulted, prev, orderVars >>

\* The list call fails.
ListFails(w) ==
    /\ pc[w] = "list"
    /\ faults < MaxFaults
    /\ faults' = faults + 1
    /\ faulted' = [faulted EXCEPT ![w] = TRUE]
    /\ lists' = [lists EXCEPT ![w] = @ + 1]
    /\ Return(w, "list")
    /\ UNCHANGED << configMaps, store, input, run, output, name, selector,
                    pvrList, idx, store0, wrote, prev, orderVars >>

\* The update call of the loop stores the status of a record of this Pod.
Update(w) ==
    /\ pc[w] = "loop"
    /\ ~UpdateConflicts(store, pvrCopy(pvrList[w][idx[w]]))
    /\ store' = UpdateStatus(store, pvrCopy(pvrList[w][idx[w]]))
    /\ wrote' = wrote \cup {<< w, run[w], pvrList[w][idx[w]].id >>}
    /\ Continue(w, pvrList[w], idx[w] + 1)
    /\ UNCHANGED << configMaps, faults, input, run, output, name, selector,
                    pvrList, store0, lists, faulted, prev, orderVars >>

\* The store refuses the update: the record changed since it was listed.
UpdateRefused(w) ==
    /\ pc[w] = "loop"
    /\ UpdateConflicts(store, pvrCopy(pvrList[w][idx[w]]))
    /\ UpdateError(w)
    /\ UNCHANGED << configMaps, store, faults, input, run, output, name,
                    selector, pvrList, histVars, orderVars >>

\* The update call fails.
UpdateFails(w) ==
    /\ pc[w] = "loop"
    /\ faults < MaxFaults
    /\ faults' = faults + 1
    /\ faulted' = [faulted EXCEPT ![w] = TRUE]
    /\ UpdateError(w)
    /\ UNCHANGED << configMaps, store, input, run, output, name, selector,
                    pvrList, store0, lists, wrote, prev, orderVars >>

Next ==
    \E w \in Workers :
        \/ Execute(w)
        \/ List(w)
        \/ ListFails(w)
        \/ Update(w)
        \/ UpdateRefused(w)
        \/ UpdateFails(w)

Spec == Init /\ [][Next]_vars

(***************************************************************************)
(* The loop over the rules, one iteration at a time                        *)
(***************************************************************************)

\* Bounds of the texts and rules the loop is run on.
MaxTextLen == 3
MaxPatternLen == 2
MaxReplacementLen == 1

\* The text and the patterns are over two letters; a replacement may
\* bring in a third.
Letters == {"a", "b"}
ReplacementLetters == {"a", "b", "x"}
StringsUpTo(n, letters) == UNION {[1..k -> letters] : k \in 0..n}

\* The maps of two rules.
RuleSets ==
    {Rule(p1, s1) @@ Rule(p2, s2) :
        p1 \in StringsUpTo(MaxPatternLen, Letters),
        p2 \in StringsUpTo(MaxPatternLen, Letters),
        s1 \in StringsUpTo(MaxReplacementLen, ReplacementLetters),
        s2 \in StringsUpTo(MaxReplacementLen, ReplacementLetters)}

InitOrder ==
    /\ configMaps = [err |-> TRUE, items |-> << >>]
    /\ store = InitialStore("New")
    /\ store0 = store
    /\ pc = [w \in Workers |-> "idle"]
    /\ input = [w \in Workers |-> NoItem]
    /\ run = [w \in Workers |-> 0]
    /\ output = [w \in Workers |-> None]
    /\ result = [w \in Workers |-> None]
    /\ name = [w \in Workers |-> << >>]
    /\ selector = [w \in Workers |-> None]
    /\ pvrList = [w \in Workers |-> << >>]
    /\ idx = [w \in Workers |-> 0]
    /\ trigErr = [w \in Workers |-> "none"]
    /\ faults = 0
    /\ lists = [w \in Workers |-> 0]
    /\ wrote = {}
    /\ faulted = [w \in Workers |-> FALSE]
    /\ prev = [w \in Workers |-> None]
    /\ \E s \in StringsUpTo(MaxTextLen, Letters) : jsonText = Str(s)
    /\ ruleSet \in {rs \in RuleSets : Cardinality(DOMAIN rs) = 2}
    /\ modifiedString = jsonText
    /\ todo = DOMAIN ruleSet

\* One iteration of the loop: the map yields one of the patterns it has not
\* yielded yet, and the rule is applied to the text built so far.
Iterate ==
    /\ \E pattern \in todo :
          /\ modifiedString' =
                ReplaceStep(jsonText, modifiedString, pattern, ruleSet[pattern])
          /\ todo' = todo \ {pattern}
    /\ UNCHANGED << configMaps, store, faults, execVars, histVars, jsonText, ruleSet >>

NextOrder == Iterate

SpecOrder == InitOrder /\ [][NextOrder]_vars


(***************************************************************************)
(* Properties                                                              *)
(***************************************************************************)

\* The records the current Execute call of w has updated.
Wrote(w) == {id \in PVRSet : << w, run[w], id >> \in wrote}

\* The records of w's list that name its Pod, and those before position i.
Listed(w, i) ==
    {pvrList[w][k].id : k \in {j \in 1..Len(pvrList[w]) :
                                  j < i /\ pvrList[w][j].pod = name[w]}}
Matching(w) == Listed(w, Len(pvrList[w]) + 1)

\* The records of the store a list with w's selector returns for w's Pod.
OwnRecords(w) ==
    {id \in PVRSet : /\ store[id].ns = veleroNamespace
                     /\ store[id].restoreName = selector[w].restoreName
                     /\ store[id].restoreUID = selector[w].restoreUID
                     /\ store[id].pod = name[w]}

Queried(w) == selector[w].st = "set"
NoRules ==
    \/ getConfigMapDataByLabel(configMaps).err
    \/ DOMAIN getConfigMapDataByLabel(configMaps).patterns = {}

\* C1: for a Pod on which replacePatternAction returns no error, the name
\* of the returned resource is the name of the input resource.
C1_PodNamePreserved ==
    \A w \in Workers :
        (output[w].st = "ok" /\ GetKind(input[w]) = Pod)
            => GetName(output[w].item) = GetName(input[w])

\* C2: when the rule fetch fails or yields no rules, Execute returns no
\* error and a resource identical to its input.
C2_NoRulesReturnsInput ==
    \A w \in Workers :
        (NoRules /\ pc[w] = "done")
            => result[w] = [st |-> "ok", item |-> input[w]]

\* C3: once replacePatternAction has succeeded, Execute returns its output
\* and no error, whatever triggerPodVolumeRestore returned.
C3_TriggerNeverBlocks ==
    \A w \in Workers :
        (pc[w] = "done" /\ output[w].st = "ok")
            => result[w] = [st |-> "ok", item |-> output[w].item]

C3_Witness ==
    \E w \in Workers :
        /\ pc[w] = "done" /\ output[w].st = "ok"
        /\ GetKind(input[w]) = Pod
        /\ trigErr[w] = "update"
        /\ Wrote(w) # {}

\* C4: when triggerPodVolumeRestore returns no error, the records it updated
\* are exactly the listed records that name the Pod, each is in progress,
\* and a record no call updated is as it was.
C4_WritesExactlyOwnRecords ==
    \A w \in Workers :
        (pc[w] = "done" /\ Queried(w) /\ trigErr[w] = "nil")
            => /\ Wrote(w) = Matching(w)
               /\ \A id \in Matching(w) :
                      store[id].phase = PodVolumeRestorePhaseInProgress
               /\ \A id \in PVRSet :
                      (\A t \in wrote : t[3] # id)
                          => store[id] = store0[id]

C4_Witness ==
    \E w \in Workers :
        /\ pc[w] = "done" /\ Queried(w) /\ trigErr[w] = "nil"
        /\ Cardinality(Wrote(w)) = 2
        /\ \E k \in 1..Len(pvrList[w]) :
              /\ pvrList[w][k].pod # name[w]
              /\ store[pvrList[w][k].id] = store0[pvrList[w][k].id]
        /\ store0["a1"].phase = "Completed"

\* C5: a rewritten Pod without labels, or with an empty restore-name or
\* restore-uid, makes triggerPodVolumeRestore fail before any store call,
\* and Execute returns the rewritten Pod.
Uncorrelated(item) ==
    \/ GetLabels(item).nil
    \/ LabelValue(GetLabels(item), restoreNameKey) = << >>
    \/ LabelValue(GetLabels(item), restoreUIDKey) = << >>

C6_SecondCallSameOutcome ==
    \A w \in Workers :
        (/\ pc[w] = "done" /\ run[w] >= 2 /\ Queried(w)
         /\ prev[w].output = output[w]
         /\ ~faulted[w]
         /\ \A t \in wrote : t[1] = w)
            => /\ trigErr[w] = "nil"
               /\ \A id \in OwnRecords(w) :
                     /\ store[id].phase = PodVolumeRestorePhaseInProgress
                     /\ prev[w].trigErr = "nil"
                           => prev[w].phase[id] = PodVolumeRestorePhaseInProgress

C6_Witness ==
    \E w \in Workers :
        /\ pc[w] = "done" /\ run[w] = 2 /\ Queried(w)
        /\ prev[w].output = output[w] /\ prev[w].trigErr = "nil"
        /\ ~faulted[w] /\ trigErr[w] = "nil"
        /\ \A t \in wrote : t[1] = w
        /\ Cardinality(OwnRecords(w)) = 2
        /\ Wrote(w) = OwnRecords(w)
        /\ store0["a1"].phase = "Failed"

\* C7: two calls for Pods of different names in one restore never update
\* the same record, never have an update refused, and once both have
\* returned without error every record of either Pod is in progress.
C7_SiblingPodsDoNotInterfere ==
    \A w, v \in Workers :
        (/\ w # v /\ Queried(w) /\ Queried(v)
         /\ selector[w] = selector[v]
         /\ name[w] # name[v])
            => /\ \A id \in PVRSet :
                     ~(\E r1w \in 1..run[w], r1v \in 1..run[v] :
                          << w, r1w, id >> \in wrote /\ << v, r1v, id >> \in wrote)
               /\ (pc[w] = "done" /\ trigErr[w] = "update") => faulted[w]
               /\ (pc[w] = "done" /\ pc[v] = "done"
                     /\ trigErr[w] = "nil" /\ trigErr[v] = "nil")
                     => \A id \in OwnRecords(w) \cup OwnRecords(v) :
                           store[id].phase = PodVolumeRestorePhaseInProgress

C7_Witness ==
    /\ \A w \in Workers : pc[w] = "done" /\ Queried(w) /\ trigErr[w] = "nil"
                          /\ run[w] = 1
    /\ selector["w1"] = selector["w2"]
    /\ name["w1"] = web /\ name["w2"] = db
    /\ Wrote("w1") = {"a1", "a2"} /\ Wrote("w2") = {"b1"}

\* C8: the first failing store call ends triggerPodVolumeRestore: after a
\* failed list nothing is updated, and after a failed update the records
\* updated are those of the Pod listed before the failing one, which stay in
\* progress.
C8_FirstFailureEndsTheCall ==
    \A w \in Workers :
        /\ (pc[w] = "done" /\ trigErr[w] = "list")
              => Wrote(w) = {} /\ pvrList[w] = << >>
        /\ (pc[w] = "done" /\ trigErr[w] = "update")
              => /\ idx[w] \in 1..Len(pvrList[w])
                 /\ pvrList[w][idx[w]].pod = name[w]
                 /\ Wrote(w) = Listed(w, idx[w])
                 /\ \A id \in Wrote(w) :
                       store[id].phase = PodVolumeRestorePhaseInProgress

C8_Witness ==
    \E w, v \in Workers :
        /\ pc[w] = "done" /\ trigErr[w] = "update"
        /\ Wrote(w) = {} /\ idx[w] = 1 /\ Cardinality(Matching(w)) = 2
        /\ pc[v] = "done" /\ trigErr[v] = "update" /\ faulted[v]
        /\ Wrote(v) = {"a1"}
        /\ store["a2"] = store0["a2"]
        /\ store0["a2"].phase = "New"

\* C10: the restore-name and restore-uid of the list call are those of the
\* input Pod's labels, and every record Execute updates carries them.
C10_CorrelationIsTheInputPods ==
    \A w \in Workers :
        /\ Queried(w)
              => /\ ~GetLabels(input[w]).nil
                 /\ selector[w].restoreName
                       = LabelValue(GetLabels(input[w]), restoreNameKey)
                 /\ selector[w].restoreUID
                       = LabelValue(GetLabels(input[w]), restoreUIDKey)
        /\ \A id \in Wrote(w) :
              /\ ~GetLabels(input[w]).nil
              /\ store[id].restoreName = LabelValue(GetLabels(input[w]), restoreNameKey)
              /\ store[id].restoreUID = LabelValue(GetLabels(input[w]), restoreUIDKey)

(***************************************************************************)
(* Properties of the loop over the rules                                   *)
(***************************************************************************)

IsSubstring(p, s) == \E i \in 1..(Len(s) + 1) : HasPrefixAt(s, p, i)
Chars(s) == {s[i] : i \in 1..Len(s)}

\* No rule's pattern is a substring of another rule's replacement.
ConfluenceChecked(rs) ==
    \A p, q \in DOMAIN rs : p # q => ~IsSubstring(p, rs[q])

\* No pattern or replacement is empty, and no pattern shares a character
\* with another rule's pattern or replacement.
Separated(rs) ==
    /\ \A p \in DOMAIN rs : p # << >> /\ rs[p] # << >>
    /\ \A p, q \in DOMAIN rs :
          p # q => /\ Chars(p) \cap Chars(q) = {}
                   /\ Chars(p) \cap Chars(rs[q]) = {}

SameForEveryOrder ==
    \A order \in Orders(DOMAIN ruleSet) :
        ReplaceLoop(jsonText, jsonText, ruleSet, order) = modifiedString

\* C9, as claimed: with rules that pass the confluence check the loop ends
\* with the same text whatever the order of the rules.
C9_ConfluenceCheckedOrderFree ==
    (todo = {} /\ ConfluenceChecked(ruleSet)) => SameForEveryOrder

\* C9, amended: with rules whose patterns and replacements are not empty and
\* whose patterns share no character with another rule's pattern or
\* replacement, the loop ends with the same text whatever the order.
C9_SeparatedOrderFree ==
    (todo = {} /\ Separated(ruleSet)) => SameForEveryOrder

C9_Witness ==
    /\ todo = {} /\ Separated(ruleSet)
    /\ ruleSet = Rule(<< "a", "a" >>, << "x" >>) @@ Rule(<< "b" >>, << "x" >>)
    /\ jsonText = Str(<< "a", "a", "b" >>)
    /\ modifiedString = Str(<< "x", "x" >>)
====
